---- MODULE Spec2Model ----
(***************************************************************************)
(* The TeX lexer of crates/mitex-parser/src/lexer.rs: the logos token      *)
(* rules, the command-name callback, and the batching Lexer on top of it.  *)
(*                                                                         *)
(* The input is a sequence of UTF-8 bytes. Every ASCII character is one    *)
(* byte, written as itself; the two-byte alphanumeric character U+00E9 is  *)
(* the lead byte "C3" followed by the continuation byte "A9". Offsets are  *)
(* byte offsets counted from 0, as in Rust, so byte i is s[i+1].           *)
(***************************************************************************)
EXTENDS Naturals, Sequences, FiniteSets, TLC

\* ------------------------------------------------------------------ bounds
\* Longest input, in characters, of the exhaustive family of inputs.
MaxLen == 3
\* Most braces on each side of the command of an input of the phrase family.
MaxPad == 2
\* Longest run of backslashes in the backslash family.
MaxRun == 5
\* Largest capacity of the peek cache (PEEK_CACHE_SIZE is 170 in the build;
\* the model tries every capacity from 1 to MaxCap so that refills happen).
MaxCap == 2
\* Largest argument given to consume_word.
MaxCnt == 2

\* ------------------------------------------------------------- characters
Letters ==
    {"a", "b", "c", "d", "e", "f", "g", "h", "i", "j", "k", "l", "m", "n", "o", "p", "q",
     "r", "s", "t", "u", "v", "w", "x", "y", "z", "A", "B", "Z"}
Digits == {"0", "1", "2", "3", "4", "5", "6", "7", "8", "9"}
\* Lead bytes of the characters wider than one byte, and continuation bytes.
LeadBytes == {"C3"}
ContinuationBytes == {"A9"}

\* char::len_utf8, by the lead byte of the character
len_utf8(c) == IF c \in LeadBytes THEN 2 ELSE 1

\* char::is_whitespace
is_whitespace(c) == c \in {" ", "\t", "\n", "\r"}

\* char::is_alphanumeric
is_alphanumeric(c) == c \in Letters \cup Digits \cup LeadBytes

\* str::is_char_boundary
is_char_boundary(s, i) ==
    \/ i = 0
    \/ i = Len(s)
    \/ i < Len(s) /\ s[i + 1] \notin ContinuationBytes

\* The member of a set of one member. The({F(x) : x \in {e}}) is F(e), with
\* e evaluated once.
The(S) == CHOOSE x \in S : TRUE

\* ----------------------------------------------------------------- tokens
Tok(tag, arg) == [tag |-> tag, arg |-> arg]
Plain(tag) == Tok(tag, "-")
CommandName(name) == Tok("CommandName", name)

\* [\r\n]
IsLineBreakChar(c) == c \in {"\r", "\n"}
\* [^\S\r\n]
IsBlankChar(c) == is_whitespace(c) /\ ~IsLineBreakChar(c)
\* The comment class that only a line feed ends: [^\n]
IsCommentChar_UntilLineFeed(c) == c # "\n"

\* [^\r\n]
IsCommentChar(c) == ~IsLineBreakChar(c)
\* The Word class without the underscore among the excluded characters
IsWordChar_WithUnderscore(c) ==
    /\ ~is_whitespace(c)
    /\ c \notin {"\\", "%", "{", "}", ",", "$", "[", "]", "(", ")", "~", "/",
                 "=", "'", "^"}

\* [^\s\\%\{\},\$\[\]\(\)\~/=_'^]
IsWordChar(c) ==
    /\ ~is_whitespace(c)
    /\ c \notin {"\\", "%", "{", "}", ",", "$", "[", "]", "(", ")", "~", "/",
                 "=", "_", "'", "^"}

\* The character classes of the rules that repeat
InClass(class, c) ==
    CASE class = "LineBreak" -> IsLineBreakChar(c)
      [] class = "Whitespace" -> IsBlankChar(c)
      [] class = "LineComment" -> IsCommentChar(c)
      [] OTHER -> IsWordChar(c)

\* The end of the longest run of characters of a class that starts at
\* offset p: the first character boundary at or after p where the input
\* ends or a character outside P starts.
RunEnd(s, p, class) ==
    CHOOSE q \in p..Len(s) :
        /\ q = Len(s) \/ (is_char_boundary(s, q) /\ ~InClass(class, s[q + 1]))
        /\ \A r \in p..(q - 1) :
              ~(is_char_boundary(s, r) /\ ~InClass(class, s[r + 1]))

\* ---------------------------------------------------- command-name scanner
LEN_ASK == 1
LEN_WORD == 1
LEN_SPECIAL == 1

\* logos::Lexer::bump: moves the token end by n bytes and asserts that it
\* lands on a character boundary.
bump(s, t, n) ==
    [end |-> t + n,
     panic |-> IF is_char_boundary(s, t + n) THEN "" ELSE "Invalid Lexer bump"]

\* The loop `for c in chars` of lex_command_name: q is the offset of the
\* character iterator, t the token end.
RECURSIVE NameLoop(_, _, _)
NameLoop(s, q, t) ==
    IF q >= Len(s) THEN [end |-> t, panic |-> ""]
    ELSE LET c == s[q + 1] IN
         IF c = "*" THEN bump(s, t, LEN_ASK)
         ELSE IF is_alphanumeric(c) THEN
             LET b == bump(s, t, LEN_WORD) IN
             IF b.panic # "" THEN b ELSE The({NameLoop(s, q + len_utf8(c), x) : x \in {b.end}})
         ELSE IF c \in {"@", ":"} THEN
             LET b == bump(s, t, LEN_SPECIAL) IN
             IF b.panic # "" THEN b ELSE The({NameLoop(s, q + len_utf8(c), x) : x \in {b.end}})
         ELSE [end |-> t, panic |-> ""]

\* lex_command_name without the test for whitespace: a blank after the
\* backslash is taken as an escaped character.
lex_command_name_BlankEscapes(s, e) ==
    IF e >= Len(s) THEN [end |-> e, panic |-> ""]
    ELSE LET c == s[e + 1] IN
         LET b == bump(s, e, len_utf8(c)) IN
         IF b.panic # "" THEN b
         ELSE IF ~is_alphanumeric(c) /\ c # "@" THEN b
         ELSE The({NameLoop(s, e + len_utf8(c), x) : x \in {b.end}})

\* lex_command_name going on into the name after any first character that
\* may stand in a name, the colon too.
lex_command_name_ColonStarts(s, e) ==
    IF e >= Len(s) THEN [end |-> e, panic |-> ""]
    ELSE LET c == s[e + 1] IN
         IF is_whitespace(c) THEN [end |-> e, panic |-> ""]
         ELSE LET b == bump(s, e, len_utf8(c)) IN
              IF b.panic # "" THEN b
              ELSE IF ~is_alphanumeric(c) /\ c \notin {"@", ":"} THEN b
              ELSE The({NameLoop(s, e + len_utf8(c), x) : x \in {b.end}})

\* lex_command_name, called with the token end e right after the backslash.
\* The result is the new token end; the callback's value is always Generic.
lex_command_name(s, e) ==
    IF e >= Len(s) THEN [end |-> e, panic |-> ""]
    ELSE LET c == s[e + 1] IN
         IF is_whitespace(c) THEN [end |-> e, panic |-> ""]
         ELSE LET b == bump(s, e, len_utf8(c)) IN
              IF b.panic # "" THEN b
              ELSE IF ~is_alphanumeric(c) /\ c # "@" THEN b
              ELSE The({NameLoop(s, e + len_utf8(c), x) : x \in {b.end}})

\* ------------------------------------------------------------ token rules
Matched(kind, p, q) == [res |-> "token", kind |-> kind, start |-> p, end |-> q, panic |-> ""]
EndOfInput(p) == [res |-> "end", kind |-> Plain("-"), start |-> p, end |-> p, panic |-> ""]
Failed(p, why) == [res |-> "panic", kind |-> Plain("-"), start |-> p, end |-> p, panic |-> why]

BraceOf == [b \in {"{", "}", "[", "]", "(", ")"} |->
              CASE b \in {"{", "}"} -> "Curly"
                [] b \in {"[", "]"} -> "Bracket"
                [] OTHER -> "Paren"]

SingleOf == [b \in {",", "~", "/", "=", "^", "'"} |->
              CASE b = "," -> "Comma"
                [] b = "~" -> "Tilde"
                [] b = "/" -> "Divide"
                [] b = "=" -> "Equal"
                [] b = "^" -> "Caret"
                [] OTHER -> "Apostrophe"]

\* BackslashRules without the precedence of NewLine: the command-name rule
\* is taken at every backslash.
BackslashRules_CommandFirst(s, p) ==
    LET r == lex_command_name(s, p + 1) IN
    IF r.panic # "" THEN Failed(p, r.panic)
    ELSE Matched(CommandName("Generic"), p, r.end)

\* The two rules that start with a backslash, at a backslash at offset p:
\* NewLine for two backslashes, else CommandName with its callback.
BackslashRules(s, p) ==
    IF p + 1 < Len(s) /\ s[p + 2] = "\\"
    THEN Matched(Plain("NewLine"), p, p + 2)
    ELSE LET r == lex_command_name(s, p + 1) IN
         IF r.panic # "" THEN Failed(p, r.panic)
         ELSE Matched(CommandName("Generic"), p, r.end)

\* One step of the logos lexer derived from enum Token: the token that
\* starts at offset p (the longest match; the priority decides between
\* rules that match the same text), the end of the input, or a panic of the
\* callback. A character no rule matches gives an error token, which the
\* unwrap of bump_batched turns into a panic.
Token_next(s, p) ==
    IF p >= Len(s) THEN EndOfInput(p)
    ELSE LET c == s[p + 1] IN
      CASE IsLineBreakChar(c) -> Matched(Plain("LineBreak"), p, RunEnd(s, p, "LineBreak"))
        [] IsBlankChar(c) -> Matched(Plain("Whitespace"), p, RunEnd(s, p, "Whitespace"))
        [] c = "%" -> Matched(Plain("LineComment"), p, RunEnd(s, p + 1, "LineComment"))
        [] c \in {"{", "[", "("} -> Matched(Tok("Left", BraceOf[c]), p, p + 1)
        [] c \in {"}", "]", ")"} -> Matched(Tok("Right", BraceOf[c]), p, p + 1)
        [] c \in DOMAIN SingleOf -> Matched(Plain(SingleOf[c]), p, p + 1)
        [] c = "&" ->
             IF p + 1 < Len(s) /\ IsWordChar(s[p + 2])
             THEN Matched(Plain("Word"), p, RunEnd(s, p, "Word"))
             ELSE Matched(Plain("And"), p, p + 1)
        [] c = "_" -> Matched(Plain("Underline"), p, p + 1)
        [] c = "$" ->
             IF p + 1 < Len(s) /\ s[p + 2] = "$"
             THEN Matched(Plain("Dollar"), p, p + 2)
             ELSE Matched(Plain("Dollar"), p, p + 1)
        [] c = "\\" -> BackslashRules(s, p)
        [] IsWordChar(c) -> Matched(Plain("Word"), p, RunEnd(s, p, "Word"))
        [] OTHER -> Failed(p, "unwrap on Err")

\* ---------------------------------------------------------------- classify
\* The text of a slice of s
Slice(s, from, to) == SubSeq(s, from + 1, to)

\* classify matching the start of the name instead of the whole name
classify_ByPrefix(name) ==
    LET starts(w) == Len(name) >= Len(w) /\ SubSeq(name, 1, Len(w)) = w IN
    CASE starts(<<"b", "e", "g", "i", "n">>) -> "BeginEnvironment"
      [] starts(<<"e", "n", "d">>) -> "EndEnvironment"
      [] starts(<<"i", "f", "f", "a", "l", "s", "e">>) -> "BeginBlockComment"
      [] starts(<<"f", "i">>) -> "EndBlockComment"
      [] starts(<<"l", "e", "f", "t">>) -> "Left"
      [] starts(<<"r", "i", "g", "h", "t">>) -> "Right"
      [] OTHER -> "Generic"

classify(name) ==
    CASE name = <<"b", "e", "g", "i", "n">> -> "BeginEnvironment"
      [] name = <<"e", "n", "d">> -> "EndEnvironment"
      [] name = <<"i", "f", "f", "a", "l", "s", "e">> -> "BeginBlockComment"
      [] name = <<"f", "i">> -> "EndBlockComment"
      [] name = <<"l", "e", "f", "t">> -> "Left"
      [] name = <<"r", "i", "g", "h", "t">> -> "Right"
      [] OTHER -> "Generic"

\* ---------------------------------------------------------------- Lexer
\* Option values: None is the empty sequence, Some(x) the sequence <<x>>.
None == <<>>
Some(x) == <<x>>

\* A peeked token (PeekTok): the kind and the text, a slice of the input
\* given by its byte offsets.
PeekTok(kind, from, to) == [kind |-> kind, start |-> from, end |-> to]

Reverse(q) == [i \in 1..Len(q) |-> q[Len(q) + 1 - i]]

\* The closure of bump_batched: the raw token, with a Generic command name
\* replaced by what classify says of the text after the backslash.
Reclassify(s, r) ==
    IF r.kind = CommandName("Generic")
    THEN PeekTok(CommandName(classify(Slice(s, r.start + 1, r.end))), r.start, r.end)
    ELSE PeekTok(r.kind, r.start, r.end)

\* The loop of bump_batched: up to n more tokens are pushed on the cache.
RECURSIVE FillCache(_, _, _, _)
FillCache(s, p, n, acc) ==
    IF n = 0 THEN [inner |-> p, peek_cache |-> acc, panic |-> ""]
    ELSE The({CASE r.res = "end" -> [inner |-> r.end, peek_cache |-> acc, panic |-> ""]
                [] r.res = "panic" -> [inner |-> p, peek_cache |-> acc, panic |-> r.panic]
                [] OTHER -> The({FillCache(s, r.end, n - 1, a) : a \in {Append(acc, Reclassify(s, r))}})
              : r \in {Token_next(s, p)}})

\* Lexer::bump_batched with a cache of the given size. L is the lexer:
\* inner (the offset of the logos lexer), peeked, peek_cache, and panic,
\* which names the panic that ended the call ("" when it returned).
bump_batched(s, L, size) ==
    The({[L EXCEPT !.inner = f.inner,
                   !.peek_cache = IF f.panic = "" THEN Reverse(f.peek_cache) ELSE f.peek_cache,
                   !.panic = f.panic]
         : f \in {FillCache(s, L.inner, size, L.peek_cache)}})

\* Vec::pop into peeked
PopPeeked(L) ==
    IF L.peek_cache = <<>> THEN [L EXCEPT !.peeked = None]
    ELSE [L EXCEPT !.peeked = Some(L.peek_cache[Len(L.peek_cache)]),
                   !.peek_cache = SubSeq(L.peek_cache, 1, Len(L.peek_cache) - 1)]

\* Lexer::next without the test for an empty cache: every call refills
Lexer_next_AlwaysRefills(s, L, size) ==
    The({IF B.panic # "" THEN B ELSE PopPeeked(B) : B \in {bump_batched(s, L, size)}})

\* Lexer::next
Lexer_next(s, L, size) ==
    IF L.peek_cache # <<>> THEN PopPeeked(L)
    ELSE The({IF B.panic # "" THEN B ELSE PopPeeked(B) : B \in {bump_batched(s, L, size)}})

\* Lexer::new
Lexer_new(s, size) ==
    Lexer_next(s, [inner |-> 0, peeked |-> None, peek_cache |-> <<>>, panic |-> ""], size)

\* The text of a peeked token
Text(s, tok) == Slice(s, tok.start, tok.end)

\* peek looking at the top of the cache instead of the current token
peek_OfCache(L) ==
    IF L.peek_cache = <<>> THEN None ELSE Some(L.peek_cache[Len(L.peek_cache)].kind)

\* Lexer::peek, Lexer::peek_text and Lexer::peek_char
peek(L) == IF L.peeked = None THEN None ELSE Some(L.peeked[1].kind)

peek_text(s, L) == IF L.peeked = None THEN None ELSE Some(Text(s, L.peeked[1]))

peek_char(s, L) ==
    IF L.peeked = None \/ L.peeked[1].start >= L.peeked[1].end THEN None
    ELSE LET tok == L.peeked[1] IN
         Some(Slice(s, tok.start, tok.start + len_utf8(s[tok.start + 1])))

\* consume_word classifying the rest of the text again after it trimmed
consume_word_Reclassifying(s, L, cnt, size) ==
    IF L.peeked = None THEN L
    ELSE LET tok == L.peeked[1] IN
         IF tok.end - tok.start <= cnt THEN Lexer_next(s, L, size)
         ELSE IF ~is_char_boundary(s, tok.start + cnt)
              THEN [L EXCEPT !.panic = "byte index is not a char boundary"]
              ELSE LET r == Token_next(s, tok.start + cnt) IN
                   [L EXCEPT !.peeked =
                       Some([tok EXCEPT !.start = tok.start + cnt,
                                        !.kind = IF r.res = "token" THEN r.kind ELSE tok.kind])]

\* consume_word advancing only when the text is shorter than cnt (< for <=)
consume_word_Shorter(s, L, cnt, size) ==
    IF L.peeked = None THEN L
    ELSE LET tok == L.peeked[1] IN
         IF tok.end - tok.start < cnt THEN Lexer_next(s, L, size)
         ELSE IF ~is_char_boundary(s, tok.start + cnt)
              THEN [L EXCEPT !.panic = "byte index is not a char boundary"]
              ELSE [L EXCEPT !.peeked = Some([tok EXCEPT !.start = tok.start + cnt])]

\* Lexer::consume_word
consume_word(s, L, cnt, size) ==
    IF L.peeked = None THEN L
    ELSE LET tok == L.peeked[1] IN
         IF tok.end - tok.start <= cnt THEN Lexer_next(s, L, size)
         ELSE IF ~is_char_boundary(s, tok.start + cnt)
              THEN [L EXCEPT !.panic = "byte index is not a char boundary"]
              ELSE [L EXCEPT !.peeked = Some([tok EXCEPT !.start = tok.start + cnt])]

\* From<Token> for SyntaxKind: one syntax kind for each token kind
SyntaxKind(kind) == [syntax |-> kind]

\* Lexer::eat: the lexer after the call and the value returned
eat(s, L, size) ==
    IF L.peeked = None THEN [lexer |-> L, value |-> None]
    ELSE LET tok == L.peeked[1] IN
         The({[lexer |-> N,
               value |-> IF N.panic # "" THEN None
                         ELSE Some([kind |-> SyntaxKind(tok.kind), text |-> Text(s, tok)])]
              : N \in {Lexer_next(s, [L EXCEPT !.peeked = None], size)}})

\* ---------------------------------------------------------------- inputs
Backslash == <<"\\">>
EAcute == <<"C3", "A9">>

\* The characters of the exhaustive family
Alphabet == {Backslash, <<"a">>, EAcute, <<" ">>, <<"\n">>, <<"*">>, <<"%">>}

\* The commands of the phrase family
Lexicon ==
    {<<"\\", "b", "e", "g", "i", "n">>,
     <<"\\", "e", "n", "d">>,
     <<"\\", "i", "f", "f", "a", "l", "s", "e">>,
     <<"\\", "f", "i">>,
     <<"\\", "l", "e", "f", "t">>,
     <<"\\", "r", "i", "g", "h", "t">>,
     <<"\\", "f", "i", "n", "d">>,
     <<"\\", "b", "e", "g", "i", "n", "*">>,
     <<"\\", "a", "C3", "A9">>}

\* The concatenations of at most n members of the set of sequences W
RECURSIVE Concats(_, _)
Concats(W, n) ==
    IF n = 0 THEN {<<>>}
    ELSE UNION {{x} \cup {x \o w : w \in W} : x \in Concats(W, n - 1)}

\* n braces
Braces(n) == [i \in 1..n |-> "{"]

\* A command of the lexicon with at most MaxPad braces on each side
Phrases ==
    {Braces(i) \o w \o Braces(j) : w \in Lexicon, i \in 0..MaxPad, j \in 0..MaxPad}

\* The punctuation family: a mark with at most one character on each side
Marks ==
    {",", "~", "/", "=", "&", "^", "'", "_", "$", "{", "}", "[", "]", "(", ")",
     "%", "@", ":", ";", "\t", "\r"}

Sides == {<<>>, <<"a">>, Backslash, <<"%">>, <<" ">>}

Marked == {l \o <<m>> \o r : m \in Marks, l \in Sides, r \in Sides}

\* The inputs of the tests the specification lists, and a few more
Examples ==
    {<<"a", "_", "b", "^", "c">>,
     <<"\\", "b", "e", "g", "i", "n", "{", "e", "q", "u", "a", "t", "i", "o", "n", "}">>,
     <<"\\", "f", "o", "o", "*", "b", "a", "r">>,
     <<"%", "c", "\n", "x">>,
     <<"\\", "a", ":", "@", "1", "*", "*">>,
     <<"\\", "@", "a", "\\", ":", "a">>,
     <<"%", "\\", "{", "$", "%", "\r", "\n", "a">>,
     <<"a", ",", "b", "~", "c", "/", "d", "=", "e", "'">>,
     <<"x", "&", "y", " ", "&", " ", "z">>}

Inputs ==
    Concats(Alphabet, MaxLen) \cup Phrases \cup Concats({Backslash}, MaxRun)
        \cup Marked \cup Examples

\* ----------------------------------------------------------------- state
VARIABLES
    source,      \* the input text, a sequence of bytes
    cap,         \* the capacity of the peek cache
    inner,       \* the offset of the inner logos lexer
    peeked,      \* the current token: None or Some(PeekTok)
    peek_cache,  \* the prefetched tokens, a stack whose top is its last element
    panic,       \* "" while the lexer is alive, else the panic that ended a call
    lastOp,      \* the last public call made
    arg,         \* the argument of that call (0 when it takes none)
    ret,         \* what that call returned
    served,      \* the tokens that became the current token, in order
    out,         \* the values eat returned, in a run that calls nothing but eat
    drain        \* TRUE while nothing but eat (and the peeks) has been called

lexvars == <<inner, peeked, peek_cache>>
vars == <<source, cap, inner, peeked, peek_cache, panic, lastOp, arg, ret, served, out, drain>>

PEEK_CACHE_SIZE == cap

\* The lexer of the current state
Self == [inner |-> inner, peeked |-> peeked, peek_cache |-> peek_cache, panic |-> panic]

\* The state takes the lexer L left by a call that advanced n times
Becomes(L) ==
    /\ inner' = L.inner
    /\ peeked' = L.peeked
    /\ peek_cache' = L.peek_cache
    /\ panic' = L.panic

\* served after a call that ran next(): the new current token, if any
Serve(L) == IF L.panic = "" /\ L.peeked # None THEN Append(served, L.peeked[1]) ELSE served

Init ==
    /\ source \in Inputs
    /\ cap \in 1..MaxCap
    /\ \E L \in {Lexer_new(source, PEEK_CACHE_SIZE)} :
       /\ inner = L.inner
       /\ peeked = L.peeked
       /\ peek_cache = L.peek_cache
       /\ panic = L.panic
       /\ served = IF L.panic = "" /\ L.peeked # None THEN <<L.peeked[1]>> ELSE <<>>
    /\ lastOp = "new"
    /\ arg = 0
    /\ ret = None
    /\ out = <<>>
    /\ drain = TRUE

\* peek taking the current token instead of looking at it
Peek_Advancing ==
    /\ panic = ""
    /\ lastOp' = "peek"
    /\ arg' = 0
    /\ ret' = peek(Self)
    /\ \E L \in {Lexer_next(source, Self, cap)} : Becomes(L)
    /\ UNCHANGED <<source, cap, served, out, drain>>

Peek ==
    /\ panic = ""
    /\ lastOp' = "peek"
    /\ arg' = 0
    /\ ret' = peek(Self)
    /\ UNCHANGED <<source, cap, inner, peeked, peek_cache, panic, served, out, drain>>

PeekText ==
    /\ panic = ""
    /\ lastOp' = "peek_text"
    /\ arg' = 0
    /\ ret' = peek_text(source, Self)
    /\ UNCHANGED <<source, cap, inner, peeked, peek_cache, panic, served, out, drain>>

PeekChar ==
    /\ panic = ""
    /\ lastOp' = "peek_char"
    /\ arg' = 0
    /\ ret' = peek_char(source, Self)
    /\ UNCHANGED <<source, cap, inner, peeked, peek_cache, panic, served, out, drain>>

ConsumeWord ==
    /\ panic = ""
    /\ \E cnt \in 0..MaxCnt :
         \E L \in {consume_word(source, Self, cnt, PEEK_CACHE_SIZE)} :
         /\ Becomes(L)
         /\ lastOp' = "consume_word"
         /\ arg' = cnt
         /\ ret' = None
         /\ served' = IF peeked # None /\ peeked[1].end - peeked[1].start <= cnt
                      THEN Serve(L) ELSE served
    /\ out' = <<>>
    /\ drain' = FALSE
    /\ UNCHANGED <<source, cap>>

Eat ==
    /\ panic = ""
    /\ \E e \in {eat(source, Self, PEEK_CACHE_SIZE)} :
       /\ Becomes(e.lexer)
       /\ lastOp' = "eat"
       /\ arg' = 0
       /\ ret' = e.value
       /\ served' = IF peeked # None THEN Serve(e.lexer) ELSE served
       /\ out' = IF drain /\ e.value # None THEN Append(out, e.value[1]) ELSE out
    /\ UNCHANGED <<source, cap, drain>>

Next == Peek \/ PeekText \/ PeekChar \/ ConsumeWord \/ Eat

Spec == Init /\ [][Next]_vars

\* ------------------------------------------------------- reading a state
\* The concatenation of a sequence of texts
RECURSIVE Concat(_)
Concat(texts) == IF texts = <<>> THEN <<>> ELSE Head(texts) \o Concat(Tail(texts))

\* The number of characters of a text
NumChars(s) == Cardinality({i \in 1..Len(s) : s[i] \notin ContinuationBytes})

\* A run that called nothing but eat has ended: eat returned none, or a
\* call panicked.
DrainEnded == drain /\ (panic # "" \/ (lastOp = "eat" /\ ret = None))

\* A panic raised while scanning (by the unwrap or by bump)
ScanPanics == {"unwrap on Err", "Invalid Lexer bump"}

\* The token of the stream that starts at offset p, classified: what the
\* classifier gives there, or None at the end of the input or when the scan
\* of that token panics.
StreamAt(s, p) ==
    LET r == Token_next(s, p) IN
    IF r.res = "token" THEN Some(Reclassify(s, r)) ELSE None

\* A lexer without prefetch (capacity 1) after k calls of next, and the
\* tokens it served: L is the lexer so far, acc what it served so far.
RECURSIVE Unbatched(_, _, _, _)
Unbatched(s, L, k, acc) ==
    IF k = 0 \/ L.panic # "" THEN [lexer |-> L, served |-> acc]
    ELSE The({Unbatched(s, N, k - 1,
                        IF N.panic = "" /\ N.peeked # None THEN Append(acc, N.peeked[1]) ELSE acc)
              : N \in {Lexer_next(s, L, 1)}})

Fresh == [inner |-> 0, peeked |-> None, peek_cache |-> <<>>, panic |-> ""]

\* --------------------------------------------------------------------- C1
\* C1: when a run that calls only eat ends, the texts eat returned,
\* concatenated in order, are the input: every character of the input is in
\* exactly one token.
C1_Lossless == DrainEnded => Concat([i \in 1..Len(out) |-> out[i].text]) = source

\* C1 where no call panics (it holds; the panic is C2's)
C1_LosslessUnlessPanic ==
    (DrainEnded /\ panic = "") => Concat([i \in 1..Len(out) |-> out[i].text]) = source

\* --------------------------------------------------------------------- C2
\* C2: the classifier never fails: the unwrap of bump_batched never sees an
\* error and no bump of the command-name scanner leaves a character boundary.
C2_NeverPanics == panic \notin ScanPanics

\* C2, the first half alone: some rule matches at every offset reached
C2_SomeRuleMatches == panic # "unwrap on Err"

\* --------------------------------------------------------------------- C3
\* C3: a run that calls only eat reaches a call that returns none: it is
\* never cut short by a panic, and eat returns at most one token for each
\* character of the input before it returns none.
C3_DrainTerminates == drain => (panic = "" /\ Len(out) <= NumChars(source))

\* C3 where no call panics
C3_TokensBounded == (drain /\ panic = "") => Len(out) <= NumChars(source)

\* --------------------------------------------------------------------- C4
\* C4: what the lexer has served as its current token is what a lexer of
\* capacity 1 serves with some number of calls of next: the same tokens in
\* the same order, the same end of input, and a scan panic only where the
\* lexer of capacity 1 panics too.
C4_BatchingUnobservable ==
    \E k \in 1..(Len(source) + 1) :
        LET R == Unbatched(source, Fresh, k, <<>>) IN
        /\ R.served = served
        /\ (R.lexer.panic # "") = (panic \in ScanPanics)
        /\ panic = "" => (R.lexer.peeked = None) = (peeked = None)

\* C4 where no scan panics
C4_UnlessPanic == (panic \notin ScanPanics) => C4_BatchingUnobservable

\* --------------------------------------------------------------------- C6
\* C6: a call of eat with a current token returns the kind and the text
\* that peek and peek_text gave before it, and leaves as current token the
\* next token of the stream, or none when there is none.
C6_EatReturnsPeeked ==
    [][(lastOp' = "eat" /\ peeked # None) =>
          /\ ret' = Some([kind |-> SyntaxKind(peek(Self)[1]),
                          text |-> peek_text(source, Self)[1]])
          /\ peeked' = StreamAt(source, peeked[1].end)]_vars

\* C6 where the call does not panic
C6_UnlessPanic ==
    [][(lastOp' = "eat" /\ peeked # None /\ panic' = "") =>
          /\ ret' = Some([kind |-> SyntaxKind(peek(Self)[1]),
                          text |-> peek_text(source, Self)[1]])
          /\ peeked' = StreamAt(source, peeked[1].end)]_vars

\* --------------------------------------------------------------------- C5
PeekOps == {"peek", "peek_text", "peek_char"}

\* C5: a call of peek, peek_text or peek_char leaves the current token, the
\* lookahead buffer and the cursor of the classifier as they were, and what
\* it returns is read off the current token: none exactly when there is no
\* current token, else its kind, its text, or the first character of its
\* text; so a repeated call returns the same value.
C5_PeeksArePure ==
    [][lastOp' \in PeekOps =>
          /\ peeked' = peeked /\ peek_cache' = peek_cache /\ inner' = inner
          /\ panic' = panic
          /\ (ret' = None) = (peeked = None)
          /\ lastOp' = lastOp => ret' = ret
          /\ peeked # None =>
                LET tok == peeked[1] IN
                CASE lastOp' = "peek" -> ret'[1] = tok.kind
                  [] lastOp' = "peek_text" -> ret'[1] = SubSeq(source, tok.start + 1, tok.end)
                  [] OTHER -> /\ ret'[1] # <<>>
                              /\ \E n \in 1..2 : ret'[1] = SubSeq(source, tok.start + 1, tok.start + n)
                              /\ ret'[1][1] \notin ContinuationBytes]_vars

\* C5's case: a peek was called on a current token with tokens in the buffer
C5_Witness == lastOp = "peek_char" /\ ret # None /\ peek_cache # <<>>

\* --------------------------------------------------------------------- C7
\* The table of section 4.3: the six names the parser cares for
SpecialNames ==
    {<<<<"b", "e", "g", "i", "n">>, "BeginEnvironment">>,
     <<<<"e", "n", "d">>, "EndEnvironment">>,
     <<<<"i", "f", "f", "a", "l", "s", "e">>, "BeginBlockComment">>,
     <<<<"f", "i">>, "EndBlockComment">>,
     <<<<"l", "e", "f", "t">>, "Left">>,
     <<<<"r", "i", "g", "h", "t">>, "Right">>}

ExpectedCommand(name) ==
    IF \E e \in SpecialNames : e[1] = name
    THEN (CHOOSE e \in SpecialNames : e[1] = name)[2]
    ELSE "Generic"

\* C7: every command token, at the moment it becomes the current token (at
\* any place: primed by new, inside a batch, first of a refilled batch), has
\* the kind the table gives for its text after the backslash, and Generic
\* for every name that is not in the table.
C7_CommandsClassified ==
    \A i \in 1..Len(served) :
        served[i].kind.tag = "CommandName" =>
            served[i].kind.arg =
                ExpectedCommand(SubSeq(source, served[i].start + 2, served[i].end))

\* C7's case: peek shows a command of the table that is the first token of
\* a refilled batch
C7_Witness ==
    /\ cap = 1
    /\ Len(served) >= 2
    /\ peeked = Some(served[Len(served)])
    /\ lastOp = "peek"
    /\ ret = Some(CommandName("BeginBlockComment"))

\* C7's other case: a starred name of the table stays Generic
C7_WitnessStarred ==
    /\ peeked # None
    /\ peeked = Some(served[Len(served)])
    /\ SubSeq(source, peeked[1].start + 1, peeked[1].end) = <<"\\", "b", "e", "g", "i", "n", "*">>
    /\ peeked[1].kind = CommandName("Generic")

\* --------------------------------------------------------------------- C8
\* The offset n characters after offset p
RECURSIVE SkipChars(_, _, _)
SkipChars(s, p, n) == IF n = 0 \/ p >= Len(s) THEN p ELSE SkipChars(s, p + len_utf8(s[p + 1]), n - 1)

C9_OvershootAdvances ==
    [][(lastOp' = "consume_word" /\ peeked # None
          /\ peeked[1].end - peeked[1].start <= arg') =>
          /\ panic' = ""
          /\ peeked' = StreamAt(source, peeked[1].end)]_vars

\* C9 where the call does not panic
C9_UnlessPanic ==
    [][(lastOp' = "consume_word" /\ peeked # None
          /\ peeked[1].end - peeked[1].start <= arg' /\ panic' = "") =>
          peeked' = StreamAt(source, peeked[1].end)]_vars

\* -------------------------------------------------------------------- C10
IsBackslashRun(s) == s # <<>> /\ \A i \in 1..Len(s) : s[i] = "\\"

\* What a run of n backslashes gives: n \div 2 NewLine tokens, then one
\* Generic command for the backslash left over when n is odd
BackslashRunTokens(n) ==
    [i \in 1..((n + 1) \div 2) |->
        IF 2 * i <= n
        THEN [kind |-> SyntaxKind(Plain("NewLine")), text |-> <<"\\", "\\">>]
        ELSE [kind |-> SyntaxKind(CommandName("Generic")), text |-> <<"\\">>]]

\* C10: a token that starts at a backslash followed by a backslash is
\* NewLine with just these two backslashes as its text, and draining a run
\* of backslashes gives a NewLine for every pair and a Generic command for
\* the odd one left over.
C10_DoubleBackslash ==
    /\ \A i \in 1..Len(served) :
          LET tok == served[i] IN
          (source[tok.start + 1] = "\\" /\ tok.start + 1 < Len(source)
             /\ source[tok.start + 2] = "\\") =>
                (tok.kind = Plain("NewLine") /\ tok.end = tok.start + 2)
    /\ (IsBackslashRun(source) /\ drain /\ lastOp = "eat" /\ ret = None) =>
          out = BackslashRunTokens(Len(source))

\* C10's case: five backslashes were drained
C10_Witness ==
    /\ source = <<"\\", "\\", "\\", "\\", "\\">>
    /\ drain /\ lastOp = "eat" /\ ret = None
    /\ Len(out) = 3

\* ------------------------------------------------ single-character tokens
\* The offsets of a served token that hold a character of its text
OffsetsOf(tok) == tok.start..(tok.end - 1)

\* The token kinds of the punctuation characters that have a rule of their own
MarkKind ==
    [c \in {",", "~", "/", "=", "&", "^", "'"} |->
        CASE c = "," -> "Comma"
          [] c = "~" -> "Tilde"
          [] c = "/" -> "Divide"
          [] c = "=" -> "Equal"
          [] c = "&" -> "And"
          [] c = "^" -> "Caret"
          [] OTHER -> "Apostrophe"]

\* Every occurrence of a character of M in a served token, save in a line
\* comment and right after a command's backslash, is a token of its own,
\* of the kind of that character
OwnToken(M) ==
    \A i \in 1..Len(served) :
        LET tok == served[i] IN
        \A q \in OffsetsOf(tok) :
            (/\ source[q + 1] \in M
             /\ tok.kind # Plain("LineComment")
             /\ ~(tok.kind.tag = "CommandName" /\ q = tok.start + 1)) =>
                (/\ tok.start = q /\ tok.end = q + 1
                 /\ tok.kind = Plain(MarkKind[source[q + 1]]))

\* C11: each of , ~ / = & ^ ' outside a line comment and not right after
\* a command's backslash is a one-character token of its own kind, whatever
\* stands before or after it.
C11_OwnTokens == OwnToken(DOMAIN MarkKind)

\* The six characters that the Word rule excludes are tokens of their own
\* everywhere; only & is not.
C11_AllButAnd == OwnToken(DOMAIN MarkKind \ {"&"})

\* An & that no Word character follows, and that starts a token, is And
C11_LoneAnd ==
    \A i \in 1..Len(served) :
        LET tok == served[i] IN
        (source[tok.start + 1] = "&"
            /\ (tok.start + 1 = Len(source) \/ ~IsWordChar(source[tok.start + 2]))) =>
                (tok.kind = Plain("And") /\ tok.end = tok.start + 1)

\* -------------------------------------------------- command-name extent
\* A character that continues a command name
IsNameChar(c) == is_alphanumeric(c) \/ c \in {"@", ":"}

\* The end of the longest run of name characters that starts at offset q,
\* counted in whole characters
RECURSIVE NameRunEnd(_, _)
NameRunEnd(s, q) ==
    IF q < Len(s) /\ IsNameChar(s[q + 1]) THEN NameRunEnd(s, q + len_utf8(s[q + 1]))
    ELSE q

\* A backslash at offset p that an alphanumeric character or @ follows
StartsNamedCommand(s, p) ==
    /\ p + 1 < Len(s)
    /\ s[p + 1] = "\\"
    /\ is_alphanumeric(s[p + 2]) \/ s[p + 2] = "@"

\* Where the command that starts at such a backslash is to end: after the
\* first character, the run of name characters, and one * if one follows
ExpectedNameEnd(s, p) ==
    LET r == NameRunEnd(s, p + 1 + len_utf8(s[p + 2])) IN
    IF r < Len(s) /\ s[r + 1] = "*" THEN r + 1 ELSE r

\* What draining \foo*bar is to give
FooStarBar == <<"\\", "f", "o", "o", "*", "b", "a", "r">>

FooStarBarTokens ==
    <<[kind |-> SyntaxKind(CommandName("Generic")), text |-> <<"\\", "f", "o", "o", "*">>],
      [kind |-> SyntaxKind(Plain("Word")), text |-> <<"b", "a", "r">>]>>

\* The served commands with a name have the extent of ExpectedNameEnd, and
\* \foo*bar drains to \foo* and bar
NamedCommandsServed ==
    /\ \A i \in 1..Len(served) :
          LET tok == served[i] IN
          StartsNamedCommand(source, tok.start) =>
              (/\ tok.kind.tag = "CommandName"
               /\ tok.end = ExpectedNameEnd(source, tok.start))
    /\ (source = FooStarBar /\ drain /\ lastOp = "eat" /\ ret = None) =>
          out = FooStarBarTokens

\* C12: the command at a backslash followed by an alphanumeric character or
\* @ runs over that character, the longest run of alphanumeric characters,
\* @ and :, and one * after it, for characters of any width: the scan of
\* such a command gives this token and nothing else.
C12_CommandExtent ==
    /\ NamedCommandsServed
    /\ panic \in ScanPanics => ~StartsNamedCommand(source, inner)

\* --------------------------------------------------- empty command name
\* A backslash at offset p that ends the input or that whitespace follows
StartsEmptyCommand(s, p) ==
    /\ p < Len(s)
    /\ s[p + 1] = "\\"
    /\ p + 1 = Len(s) \/ is_whitespace(s[p + 2])

\* What eat returns for a command with an empty name
EatenBackslash == [kind |-> SyntaxKind(CommandName("Generic")), text |-> <<"\\">>]

\* C13: a backslash that ends the input or stands before whitespace is a
\* Generic command whose text is the backslash alone; the whitespace is the
\* next token, Whitespace or LineBreak; after the backslash that ends the
\* input the lexer is at its end; the scan of such a backslash never
\* panics.
C13_EmptyCommand ==
    /\ \A i \in 1..Len(served) :
          LET tok == served[i] IN
          StartsEmptyCommand(source, tok.start) =>
              /\ tok.kind = CommandName("Generic")
              /\ tok.end = tok.start + 1
              /\ i < Len(served) =>
                    /\ tok.end < Len(source)
                    /\ served[i + 1].start = tok.end
                    /\ served[i + 1].kind \in {Plain("Whitespace"), Plain("LineBreak")}
              /\ (tok.end = Len(source) /\ lastOp = "eat" /\ ret = Some(EatenBackslash)) =>
                    (panic = "" /\ peeked = None /\ peek(Self) = None)
    /\ panic \in ScanPanics => ~StartsEmptyCommand(source, inner)

\* C13's case: backslash, blank, backslash was lexed to its end
C13_Witness ==
    /\ source = <<"\\", " ", "\\">>
    /\ Len(served) = 3
    /\ served[1].end = 1 /\ served[2].kind = Plain("Whitespace")
    /\ lastOp = "eat" /\ ret = Some(EatenBackslash)
    /\ peeked = None

\* ------------------------------------------------------ symbolic escape
\* A backslash at offset p followed by a character that is no whitespace,
\* no backslash, not alphanumeric and not @
StartsEscape(s, p) ==
    /\ p + 1 < Len(s)
    /\ s[p + 1] = "\\"
    /\ ~is_whitespace(s[p + 2])
    /\ s[p + 2] # "\\"
    /\ ~is_alphanumeric(s[p + 2])
    /\ s[p + 2] # "@"

\* C14: the token at a backslash followed by a character that is no
\* whitespace, no backslash, not alphanumeric and not @ is a Generic command
\* made of the backslash and that one character; the character starts no
\* token of its own, and the next token starts right after it; the scan of
\* such an escape never panics.
C14_SymbolicEscape ==
    /\ \A i \in 1..Len(served) :
          LET tok == served[i] IN
          /\ StartsEscape(source, tok.start) =>
                /\ tok.kind = CommandName("Generic")
                /\ tok.end = tok.start + 1 + len_utf8(source[tok.start + 2])
                /\ i < Len(served) => served[i + 1].start = tok.end
          /\ (tok.start > 0 /\ StartsEscape(source, tok.start - 1)) =>
                /\ i > 1
                /\ served[i - 1].kind.tag = "NewLine"
    /\ panic \in ScanPanics => ~StartsEscape(source, inner)

\* C14's case: in \%a the escape \% was served and then the word a
C14_Witness ==
    /\ source = <<"\\", "%", "a">>
    /\ Len(served) = 2
    /\ served[1].kind = CommandName("Generic") /\ served[1].end = 2
    /\ served[2].kind = Plain("Word") /\ served[2].start = 2

\* ------------------------------------------------------- word boundaries
\* The characters that no Word may hold
NotInWords ==
    {" ", "\t", "\r", "\n", "\\", "%", "{", "}", "[", "]", "(", ")", "$", "~",
     "/", "=", "_", "'", "^", ","}

\* What draining a_b^c is to give
PriorityExample == <<"a", "_", "b", "^", "c">>

PriorityExampleTokens ==
    <<[kind |-> SyntaxKind(Plain("Word")), text |-> <<"a">>],
      [kind |-> SyntaxKind(Plain("Underline")), text |-> <<"_">>],
      [kind |-> SyntaxKind(Plain("Word")), text |-> <<"b">>],
      [kind |-> SyntaxKind(Plain("Caret")), text |-> <<"^">>],
      [kind |-> SyntaxKind(Plain("Word")), text |-> <<"c">>]>>

\* C15: no Word holds whitespace, a backslash, % { } [ ] ( ) $ ~ / = _ ' ^
\* or a comma; every _ outside comments and command names is an Underline
\* token of one character; a Word is never followed at once by another
\* Word; a_b^c drains to Word a, Underline _, Word b, Caret ^, Word c.
C15_WordBoundaries ==
    /\ \A i \in 1..Len(served) :
          LET tok == served[i] IN
          /\ tok.kind = Plain("Word") =>
                /\ tok.start < tok.end
                /\ \A q \in OffsetsOf(tok) : source[q + 1] \notin NotInWords
                /\ i < Len(served) =>
                      (served[i + 1].start = tok.end /\ served[i + 1].kind # Plain("Word"))
          /\ \A q \in OffsetsOf(tok) :
                (source[q + 1] = "_" /\ tok.kind.tag \notin {"LineComment", "CommandName"}) =>
                    (tok.kind = Plain("Underline") /\ tok.start = q /\ tok.end = q + 1)
    /\ (source = PriorityExample /\ drain /\ lastOp = "eat" /\ ret = None) =>
          out = PriorityExampleTokens

\* C15's case: a_b^c was drained
C15_Witness ==
    /\ source = PriorityExample
    /\ drain /\ lastOp = "eat" /\ ret = None
    /\ Len(out) = 5

\* ----------------------------------------------------------- comment line
\* The first offset at or after p where the input ends or a \r or \n stands
LineEnd(s, p) ==
    CHOOSE q \in p..Len(s) :
        /\ q = Len(s) \/ s[q + 1] \in {"\r", "\n"}
        /\ \A r \in p..(q - 1) : s[r + 1] \notin {"\r", "\n"}

\* C16: a token that starts at % is a LineComment that runs up to the next
\* \r or \n, or to the end of the input; no other token starts inside it,
\* and the line break that ends it starts the next token, a LineBreak.
C16_CommentLine ==
    /\ \A i \in 1..Len(served) :
          LET tok == served[i] IN
          source[tok.start + 1] = "%" =>
              /\ tok.kind = Plain("LineComment")
              /\ tok.end = LineEnd(source, tok.start)
              /\ \A j \in 1..Len(served) :
                    j # i => served[j].start \notin OffsetsOf(tok)
              /\ i < Len(served) =>
                    /\ tok.end < Len(source)
                    /\ served[i + 1].start = tok.end
                    /\ served[i + 1].kind = Plain("LineBreak")
    /\ panic \in ScanPanics => source[inner + 1] # "%"

\* C16's case: a comment that holds a backslash, a brace, $ and % was
\* served, then the line break \r\n and the word after it
C16_Witness ==
    /\ source = <<"%", "\\", "{", "$", "%", "\r", "\n", "a">>
    /\ Len(served) = 3
    /\ served[1] = PeekTok(Plain("LineComment"), 0, 5)
    /\ served[2] = PeekTok(Plain("LineBreak"), 5, 7)
    /\ served[3].kind = Plain("Word")

\* ------------------------------------------------------- the end of input
\* The lexer is live (no call has panicked) and its current token is none
AtEnd == panic = "" /\ peeked = None

\* C17: in every state of a live lexer, a current token of none means that
\* the cache is empty and the classifier has scanned the whole input; the
\* cache never holds more than PEEK_CACHE_SIZE tokens; and the classifier
\* scans on (a refill) only from a state whose cache is empty.
C17_EndOnlyAtTrueEnd ==
    /\ [](AtEnd => (peek_cache = <<>> /\ inner = Len(source)))
    /\ [](Len(peek_cache) <= PEEK_CACHE_SIZE)
    /\ [][inner' # inner => peek_cache = <<>>]_vars

\* C17's case: a lexer with a cache of two tokens has reached the end of
\* an input of three tokens, after two refills
C17_Witness ==
    /\ AtEnd
    /\ cap = 2
    /\ Len(served) = 3
    /\ source # <<>>
    /\ lastOp \in {"eat", "consume_word"}

\* C18: when peek, peek_text or peek_char has returned none the lexer is at
\* its end, and a lexer at its end stays there: every later call leaves the
\* current token none, the cache empty and the classifier where it is,
\* serves no further token, and returns none.
C18_EndIsSticky ==
    /\ []((lastOp \in PeekOps /\ ret = None) => AtEnd)
    /\ [][AtEnd => /\ AtEnd'
                   /\ inner' = inner /\ peek_cache' = peek_cache
                   /\ served' = served
                   /\ ret' = None]_vars

\* C18's case: eat was called at the end of an input of several tokens, in
\* a run that also called consume_word, and returned none
C18_Witness ==
    /\ AtEnd
    /\ lastOp = "eat" /\ ret = None
    /\ Len(served) >= 2
    /\ ~drain

\* ------------------------------------------------------- non-empty texts
\* C19: the text of the current token is never empty, after construction
\* and after every eat and consume_word; every token that the classifier
\* produced, served or still in the cache, covers at least one character;
\* peek_text returns none or a text that is not empty.
C19_TextNeverEmpty ==
    /\ peeked # None => peeked[1].start < peeked[1].end
    /\ peek_text(source, Self) # Some(<<>>)
    /\ \A i \in 1..Len(peek_cache) : peek_cache[i].start < peek_cache[i].end
    /\ \A i \in 1..Len(served) : served[i].start < served[i].end
    /\ lastOp = "peek_text" => ret # Some(<<>>)

\* C19's case: consume_word(1) has trimmed the current token down to its
\* last byte
C19_Witness ==
    /\ lastOp = "consume_word" /\ arg = 1
    /\ panic = ""
    /\ peeked # None
    /\ peeked[1].end - peeked[1].start = 1
    /\ peeked[1].start > served[Len(served)].start

====
